---- MODULE Spec2Model ----
(***************************************************************************)
(* The QUIC / HTTP-3 websocket client of xpra:                             *)
(*   xpra/net/quic/connection.py  XpraQuicConnection                       *)
(*   xpra/net/quic/client.py      ClientWebSocketConnection,               *)
(*                                WebSocketClient                          *)
(* One WebSocketClient multiplexes many ClientWebSocketConnection objects  *)
(* over one QUIC connection, keyed by stream id.                           *)
(*                                                                         *)
(* The aioquic calls connection.send_headers / connection.send_data are    *)
(* modelled by the log of the frames handed to them (field "sent" of each  *)
(* stream), transmit() by the count of frames not yet put on the wire.     *)
(*                                                                         *)
(* Spec takes each call and each event as one step; RaceSpec splits        *)
(* write() and flush_writes at the reads and writes of write_buffer, for   *)
(* the session thread writing while the driver thread accepts.             *)
(*                                                                         *)
(* The admission of a connection on the server's sockets, as the unit      *)
(* tests drive it:                                                         *)
(*   tests/unittests/unit/server/server_auth_test.py                       *)
(*   tests/unittests/unit/server/server_sockets_test.py                    *)
(* The tests start a server with an authentication backend and a           *)
(* certificate, run a client against one of its sockets and compare the    *)
(* client's exit code.  The server and client they start are not part of   *)
(* these sources: transport detection, the TLS handshake and the           *)
(* authentication engine are modelled from the specification's sections    *)
(* 4.2, 4.3 and 6; variable "attempt" follows one such connection attempt. *)
(***************************************************************************)
EXTENDS Integers, Sequences, FiniteSets, TLC

\* ------------------------------------------------------------------ bounds
\* calls made in one session: open, write, close, read, events delivered
MaxCalls == 5

\* ------------------------------------------------------- program constants
\* client-initiated bidirectional QUIC stream ids are 0, 4, 8, ...
StreamIdStep == 4
\* default close code of send_close
CloseCode == 1000
\* sec-websocket-version of WS_HEADERS
WebSocketVersion == 13

\* ------------------------------------------------------------------ inputs
\* buffers handed to write(): byte strings
Bufs == { <<1>>, <<2, 3>> }
\* payloads of DataReceived events
Datas == { <<7>>, <<8, 9>> }
Hosts == { <<"h">> }
Paths == { <<"/">> }

\* header values are byte strings, one element per character
Xpra == <<"x", "p", "r", "a">>
Foo == <<"f", "o", "o">>
HeaderValues ==
    { Xpra, Foo, Foo \o <<",">> \o Xpra, Foo \o <<",", " ">> \o Xpra }
SubprotocolHeader == "sec-websocket-protocol"
ResponseHeaders ==
    { <<SubprotocolHeader, v>> : v \in HeaderValues } \cup { <<":status", <<"2", "0", "0">>>> }
\* the header lists of the HeadersReceived events
HeaderLists ==
    { <<>> } \cup { <<h>> : h \in ResponseHeaders }
    \cup { <<<<SubprotocolHeader, v>>, <<SubprotocolHeader, w>>>> : v, w \in { Xpra, Foo } }

\* the stream ids of a session: those open() can allocate and one more
AllStreamIds == { StreamIdStep * i : i \in 0..MaxCalls }

HeadersReceived(sid, headers) ==
    [type |-> "HeadersReceived", stream_id |-> sid, headers |-> headers, data |-> <<>>]
DataReceived(sid, data) ==
    [type |-> "DataReceived", stream_id |-> sid, headers |-> <<>>, data |-> data]
\* any other H3 event (PushPromiseReceived, ...)
OtherEvent(sid) ==
    [type |-> "Other", stream_id |-> sid, headers |-> <<>>, data |-> <<>>]

H3Events ==
    { HeadersReceived(s, h) : s \in AllStreamIds, h \in HeaderLists }
    \cup { DataReceived(s, d) : s \in AllStreamIds, d \in Datas }
    \cup { OtherEvent(s) : s \in AllStreamIds }

VARIABLES
    websockets,      \* WebSocketClient._websockets: stream id -> connection object
    next_stream_id,  \* what _quic.get_next_available_stream_id() returns next
    calls,           \* the number of calls made so far
    last,            \* the last call made: its operation, stream id and outcome
    attempt          \* one connection attempt of a client on a server's socket

vars == <<websockets, next_stream_id, calls, last, attempt>>

\* ------------------------------------------------------------ frames sent
HeadersFrame(headers, end_stream) ==
    [type |-> "headers", headers |-> headers, data |-> <<>>, end_stream |-> end_stream]
DataFrame(data, end_stream) ==
    [type |-> "data", headers |-> <<>>, data |-> data, end_stream |-> end_stream]

\* xpra.net.websockets.header.close_packet: a websocket close frame,
\* opcode 0x88, payload length 2, the close code as a big-endian short
close_packet(code, reason) ==
    <<136, 2 + Len(reason), code \div 256, code % 256>> \o reason

Digits == <<"0", "1", "2", "3", "4", "5", "6", "7", "8", "9">>
RECURSIVE str(_)
\* str(n).encode() of binary_headers: the decimal digits of a number
str(n) == IF n < 10 THEN <<Digits[n + 1]>> ELSE str(n \div 10) \o <<Digits[(n % 10) + 1]>>

\* xpra.net.quic.common.USER_AGENT
USER_AGENT == Xpra

\* xpra.os_util.memoryview_to_bytes: the bytes of a buffer
memoryview_to_bytes(buf) == [i \in 1..Len(buf) |-> buf[i] % 256]

\* ------------------------------------------------- XpraQuicConnection
\* XpraQuicConnection.__init__ followed by ClientWebSocketConnection.__init__
NewConnection ==
    [accepted |-> FALSE, closed |-> FALSE, active |-> TRUE,
     read_queue |-> <<>>,
     write_buffer |-> <<>>, write_buffer_none |-> FALSE,
     sent |-> <<>>, untransmitted |-> 0,
     reading |-> FALSE,    \* the owner is inside read()
     writing |-> FALSE,    \* the owner is inside write(), past its test of write_buffer
     flushing |-> "idle",  \* the driver inside flush_writes: in its loop, or past it
     submitted |-> <<>>,   \* history: the buffers write() was called with
     delivered |-> <<>>,   \* history: the DataReceived payloads taken while open
     returned |-> <<>>,    \* history: the payloads read() has returned
     err |-> "none", ret |-> 0]

transmit(c) == [c EXCEPT !.untransmitted = 0]

connection_send_data(c, data, end_stream) ==
    [c EXCEPT !.sent = Append(@, DataFrame(data, end_stream)),
              !.untransmitted = @ + 1]

connection_send_headers(c, headers, end_stream) ==
    [c EXCEPT !.sent = Append(@, HeadersFrame(headers, end_stream)),
              !.untransmitted = @ + 1]

\* XpraQuicConnection.send_headers
send_headers(c, headers) == connection_send_headers(c, headers, c.closed)

\* XpraQuicConnection.write
XpraQuicConnection_write(c, buf) ==
    [transmit(connection_send_data(c, memoryview_to_bytes(buf), c.closed))
        EXCEPT !.ret = Len(buf)]

\* ClientWebSocketConnection.write
write(c, buf) ==
    IF ~c.write_buffer_none
    THEN [c EXCEPT !.write_buffer = Append(@, buf), !.ret = Len(buf)]
    ELSE XpraQuicConnection_write(c, buf)

\* xpra.net.bytestreams.Connection.close
Connection_close(c) == [c EXCEPT !.active = FALSE]

\* send_close raising the closed flag only once the frame has gone out
send_close_late_flag(c, code, reason) ==
    LET c1 == IF c.accepted
              THEN write(c, close_packet(code, reason))
              ELSE transmit(send_headers(c, << <<":status", str(code)>> >>))
    IN  [c1 EXCEPT !.closed = TRUE]

\* XpraQuicConnection.send_close
send_close(c, code, reason) ==
    LET c1 == [c EXCEPT !.closed = TRUE]
    IN  IF c1.accepted
        THEN write(c1, close_packet(code, reason))
        ELSE transmit(send_headers(c1, << <<":status", str(code)>> >>))

\* close() without the test of self.closed
close_unguarded(c) == Connection_close(send_close(c, CloseCode, <<>>))

\* XpraQuicConnection.close
close(c) ==
    Connection_close(IF ~c.closed THEN send_close(c, CloseCode, <<>>) ELSE c)

\* http_event_received putting the payload at the head of the queue
XpraQuicConnection_http_event_received_push_front(c, event) ==
    IF c.closed THEN c
    ELSE IF event.type = "DataReceived"
         THEN [c EXCEPT !.read_queue = <<event.data>> \o @]
         ELSE c

\* XpraQuicConnection.http_event_received
XpraQuicConnection_http_event_received(c, event) ==
    IF c.closed THEN c
    ELSE IF event.type = "DataReceived"
         THEN [c EXCEPT !.read_queue = Append(@, event.data)]
         ELSE c  \* log.warn: unhandled websocket http event

\* ---------------------------------------------- ClientWebSocketConnection
RECURSIVE SendAll(_, _)
\* the while loop of flush_writes
SendAll(c, bufs) ==
    IF bufs = <<>> THEN c
    ELSE SendAll(connection_send_data(c, memoryview_to_bytes(Head(bufs)), FALSE), Tail(bufs))

RECURSIVE Reverse(_)
Reverse(s) == IF s = <<>> THEN <<>> ELSE Append(Reverse(Tail(s)), Head(s))

\* flush_writes draining the buffer from its newest entry (a LifoQueue)
flush_writes_lifo(c) ==
    IF c.write_buffer_none
    THEN [c EXCEPT !.err = "AttributeError"]
    ELSE [transmit(SendAll(c, Reverse(c.write_buffer)))
            EXCEPT !.write_buffer = <<>>, !.write_buffer_none = TRUE]

\* flush_writes marking the stream open again once its writes are flushed
flush_writes_reopen(c) ==
    IF c.write_buffer_none
    THEN [c EXCEPT !.err = "AttributeError"]
    ELSE [transmit(SendAll(c, c.write_buffer))
            EXCEPT !.write_buffer = <<>>, !.write_buffer_none = TRUE, !.closed = FALSE]

\* ClientWebSocketConnection.flush_writes
\* flush_writes leaving an empty Queue in write_buffer where the code leaves None
flush_writes_keep_queue(c) ==
    IF c.write_buffer_none
    THEN [c EXCEPT !.err = "AttributeError"]
    ELSE [transmit(SendAll(c, c.write_buffer)) EXCEPT !.write_buffer = <<>>]

flush_writes(c) ==
    IF c.write_buffer_none
    THEN [c EXCEPT !.err = "AttributeError"]  \* None.qsize()
    ELSE [transmit(SendAll(c, c.write_buffer))
            EXCEPT !.write_buffer = <<>>, !.write_buffer_none = TRUE]

RECURSIVE SplitFrom(_, _, _)
SplitFrom(s, cur, acc) ==
    IF s = <<>> THEN Append(acc, cur)
    ELSE IF Head(s) = ","
         THEN SplitFrom(Tail(s), <<>>, Append(acc, cur))
         ELSE SplitFrom(Tail(s), Append(cur, Head(s)), acc)

\* value.decode().split(",")
split(value) == SplitFrom(value, <<>>, <<>>)

\* "xpra" in subprotocols
XpraIn(subprotocols) == \E i \in 1..Len(subprotocols) : subprotocols[i] = Xpra

RECURSIVE HeaderLoop_warn_only(_, _)
\* the loop warning about an unsupported subprotocol without closing
HeaderLoop_warn_only(c, headers) ==
    IF headers = <<>> THEN c
    ELSE LET header == Head(headers)[1]
             value == Head(headers)[2]
         IN  IF header = SubprotocolHeader
             THEN IF ~XpraIn(split(value))
                  THEN c
                  ELSE LET c1 == flush_writes([c EXCEPT !.accepted = TRUE])
                       IN  IF c1.err # "none" THEN c1
                           ELSE HeaderLoop_warn_only(c1, Tail(headers))
             ELSE HeaderLoop_warn_only(c, Tail(headers))

RECURSIVE HeaderLoop(_, _)
\* the for loop over event.headers of ClientWebSocketConnection.http_event_received
HeaderLoop(c, headers) ==
    IF headers = <<>> THEN c
    ELSE LET header == Head(headers)[1]
             value == Head(headers)[2]
         IN  IF header = SubprotocolHeader
             THEN IF ~XpraIn(split(value))
                  THEN close(c)  \* and return
                  ELSE LET c1 == flush_writes([c EXCEPT !.accepted = TRUE])
                       IN  IF c1.err # "none" THEN c1 ELSE HeaderLoop(c1, Tail(headers))
             ELSE HeaderLoop(c, Tail(headers))

\* ClientWebSocketConnection.http_event_received
http_event_received(c, event) ==
    IF event.type = "HeadersReceived"
    THEN HeaderLoop(c, event.headers)
    ELSE XpraQuicConnection_http_event_received(c, event)

\* ---------------------------------------------------------- WebSocketClient
\* WS_HEADERS, as binary_headers hands them to aioquic: each value a byte
\* string, the version number through str()
WS_HEADERS ==
    << <<":method", <<"C", "O", "N", "N", "E", "C", "T">> >>,
       <<":scheme", <<"h", "t", "t", "p", "s">> >>,
       <<":protocol", <<"w", "e", "b", "s", "o", "c", "k", "e", "t">> >>,
       <<"sec-websocket-version", str(WebSocketVersion)>>,
       <<"sec-websocket-protocol", Xpra>>,
       <<"user-agent", USER_AGENT>> >>

\* what a call leaves in the object once it has returned or raised
Settled(c) == [c EXCEPT !.err = "none", !.ret = 0]

Put(ws, sid, c) == [s \in DOMAIN ws \cup {sid} |-> IF s = sid THEN c ELSE ws[s]]

\* open sending only :authority and :path: the update with WS_HEADERS left out
WebSocketClient_open_bare(ws, stream_id, host, path) ==
    LET headers == << <<":authority", host>>, <<":path", path>> >>
        websocket == transmit(connection_send_headers(NewConnection, headers, FALSE))
    IN  Put(ws, stream_id, websocket)

\* WebSocketClient.open: the map after the call
WebSocketClient_open(ws, stream_id, host, path) ==
    LET headers == << <<":authority", host>>, <<":path", path>> >> \o WS_HEADERS
        websocket == transmit(connection_send_headers(NewConnection, headers, FALSE))
    IN  Put(ws, stream_id, websocket)

\* http_event_received looking the stream up with setdefault: an unknown
\* stream id gets a connection of its own
WebSocketClient_http_event_received_setdefault(ws, event) ==
    IF event.type \in {"HeadersReceived", "DataReceived"}
    THEN LET c == IF event.stream_id \in DOMAIN ws THEN ws[event.stream_id]
                  ELSE NewConnection
         IN  Put(ws, event.stream_id, http_event_received(c, event))
    ELSE ws

\* http_event_received handing the event to every stream of the map
WebSocketClient_http_event_received_broadcast(ws, event) ==
    IF event.type \in {"HeadersReceived", "DataReceived"}
    THEN IF event.stream_id \in DOMAIN ws
         THEN [s \in DOMAIN ws |-> http_event_received(ws[s], event)]
         ELSE ws
    ELSE ws

\* WebSocketClient.http_event_received: the map after the call
WebSocketClient_http_event_received(ws, event) ==
    IF event.type \in {"HeadersReceived", "DataReceived"}
    THEN IF event.stream_id \in DOMAIN ws
         THEN Put(ws, event.stream_id, http_event_received(ws[event.stream_id], event))
         ELSE ws  \* log.warn: unexpected websocket stream id
    ELSE ws  \* log.warn: unexpected http event type

\* ---------------------------------------------------- connection attempts
\* the secret the tests keep in the server's password file, and the
\* passwords they give the client: none, "foo", "hello", the secret, and the
\* secret with "A" appended
Secret == <<"s">>
Hello == <<"h", "e", "l", "l", "o">>
Passwords == { <<>>, Foo, Hello, Secret, Secret \o <<"A">> }
\* --auth=... of the server: a backend, and for file the secret its file holds
\* (none when no filename is given)
ServerAuths ==
    { [auth |-> a, stored |-> <<>>] : a \in {"none", "allow", "reject", "fail", "file"} }
        \cup { [auth |-> "file", stored |-> Secret] }
Certs == { "self-signed", "trusted" }
\* the salts a challenge may carry
Salts == { 1, 2 }
\* --ssl-server-verify-mode of the client, or no such option
VerifyModeOptions == { "absent", "none", "optional", "required" }
\* the URI scheme of the client and the socket of the server it names
TransportPaths ==
    { <<"tcp", "tcp">>, <<"ws", "tcp">>, <<"ws", "ws">>,
      <<"ssl", "ssl">>, <<"ssl", "tcp">>,
      <<"wss", "tcp">>, <<"wss", "ws">>, <<"wss", "wss">> }

IsTls(scheme) == scheme \in {"ssl", "wss"}
IsWebSocket(scheme) == scheme \in {"ws", "wss"}

\* the verify-mode in force: required unless the option says otherwise
ssl_server_verify_mode(option) == IF option = "absent" THEN "required" ELSE option

\* get_ssl_verify_mode: the name of a verify-mode to the ssl module's constant
get_ssl_verify_mode(verify_mode) ==
    CASE verify_mode = "none" -> "CERT_NONE"
      [] verify_mode = "optional" -> "CERT_OPTIONAL"
      [] verify_mode = "required" -> "CERT_REQUIRED"

\* the client's check of the server's certificate chain in the TLS handshake
certificate_verifies(cert, verify_mode) ==
    get_ssl_verify_mode(verify_mode) = "CERT_NONE" \/ cert = "trusted"

\* the digest over secret and salt: no two inputs share a digest
digest(secret, salt) == [mechanism |-> "hmac", secret |-> secret, salt |-> salt]
NoResponse == [mechanism |-> "none", secret |-> <<>>, salt |-> 0]

\* the client's answer to a challenge: none without a secret
challenge_response(password, salt) ==
    IF password = <<>> THEN NoResponse ELSE digest(password, salt)

\* the backend's verdict on the answer to its challenge
verify(auth, stored, salt, response) ==
    CASE auth = "none" ->
            IF response # NoResponse THEN "NoAuthenticationConfigured" ELSE "Ok"
      [] auth = "allow" ->
            IF response = NoResponse THEN "PasswordRequired" ELSE "Ok"
      [] auth = "reject" -> "PasswordRequired"
      [] auth = "file" ->
            IF stored = <<>> \/ response = NoResponse THEN "PasswordRequired"
            ELSE IF response = digest(stored, salt) THEN "Ok"
            ELSE "AuthenticationFailed"

\* the exit code of the client for a verdict
ResultCode(result) ==
    CASE result = "Ok" -> "OK"
      [] result = "PasswordRequired" -> "PASSWORD_REQUIRED"
      [] result = "AuthenticationFailed" -> "AUTHENTICATION_FAILED"
      [] result = "NoAuthenticationConfigured" -> "NO_AUTHENTICATION"

\* no server started yet
NoAttempt ==
    [phase |-> "idle",
     auth |-> "none", stored |-> <<>>, cert |-> "self-signed",  \* the server
     scheme |-> "tcp", listener |-> "tcp",                       \* the URI
     ssl_server_verify_mode |-> "absent", password |-> <<>>,    \* the client
     version |-> "none",   \* the exit code of the version query
     tls |-> FALSE, tag |-> "none",
     challenges |-> 0, salt |-> 0, response |-> NoResponse,
     result |-> "none", exit_code |-> "none"]

\* ------------------------------------------------------------------ calls
\* the call just made: what it was, on which stream id, whether the map knew
\* the id and the stream was accepted or closed when it was made, and what the
\* call raised or returned
Call(op, sid, c) ==
    [op |-> op, sid |-> sid,
     was_known |-> sid \in DOMAIN websockets,
     was_accepted |-> sid \in DOMAIN websockets /\ websockets[sid].accepted,
     was_closed |-> sid \in DOMAIN websockets /\ websockets[sid].closed,
     err |-> c.err, ret |-> c.ret]

Init ==
    /\ websockets = << >>
    /\ next_stream_id = 0
    /\ calls = 0
    /\ last = [op |-> "none", sid |-> 0, was_known |-> FALSE, was_accepted |-> FALSE,
               was_closed |-> FALSE, err |-> "none", ret |-> 0]
    /\ attempt = NoAttempt

\* one more call of the session
Called == calls < MaxCalls /\ calls' = calls + 1

OpenOf(host, path) ==
    /\ Called
    /\ websockets' = WebSocketClient_open(websockets, next_stream_id, host, path)
    /\ next_stream_id' = next_stream_id + StreamIdStep
    /\ last' = Call("open", next_stream_id, NewConnection)
    /\ UNCHANGED attempt

Open == \E host \in Hosts, path \in Paths : OpenOf(host, path)

\* the owner of a stream calls write(buf)
WriteOf(sid, buf) ==
    /\ sid \in DOMAIN websockets
    /\ Called
    /\ LET c == write([websockets[sid] EXCEPT !.submitted = Append(@, buf)], buf)
       IN  /\ websockets' = Put(websockets, sid, Settled(c))
           /\ last' = Call("write", sid, c)
    /\ UNCHANGED <<next_stream_id, attempt>>

Write == \E sid \in AllStreamIds, buf \in Bufs : WriteOf(sid, buf)

\* the owner of a stream calls close()
CloseOf(sid) ==
    /\ sid \in DOMAIN websockets
    /\ Called
    /\ LET c == close(websockets[sid])
       IN  /\ websockets' = Put(websockets, sid, Settled(c))
           /\ last' = Call("close", sid, [c EXCEPT !.ret = 0])  \* returns None
    /\ UNCHANGED <<next_stream_id, attempt>>

Close == \E sid \in AllStreamIds : CloseOf(sid)

\* history: the payload of a DataReceived event for a stream of the map that
\* was not closed when the event came
Delivered(c, s, event) ==
    IF /\ event.type = "DataReceived" /\ event.stream_id = s
       /\ s \in DOMAIN websockets /\ ~websockets[s].closed
    THEN [c EXCEPT !.delivered = Append(@, event.data)]
    ELSE c

\* quic_event_received hands one H3 event to WebSocketClient.http_event_received
HttpEventOf(event) ==
    /\ Called
    /\ LET ws == WebSocketClient_http_event_received(websockets, event)
           sid == event.stream_id
           c == IF sid \in DOMAIN ws THEN ws[sid] ELSE NewConnection
       IN  /\ websockets' = [s \in DOMAIN ws |-> Settled(Delivered(ws[s], s, event))]
           /\ last' = Call("event", sid, [c EXCEPT !.ret = 0])  \* returns None
    /\ UNCHANGED <<next_stream_id, attempt>>

\* the peer's events name a stream that was opened, or the first id that was not
HttpEvent ==
    \E event \in H3Events : event.stream_id <= next_stream_id /\ HttpEventOf(event)

\* XpraQuicConnection.read on a queue that is not empty: read_queue.get()
\* returns its head at once
ReadOf(sid) ==
    /\ sid \in DOMAIN websockets
    /\ ~websockets[sid].reading
    /\ websockets[sid].read_queue # <<>>
    /\ Called
    /\ websockets' = [websockets EXCEPT ![sid].read_queue = Tail(@),
                                        ![sid].returned = Append(@, Head(websockets[sid].read_queue))]
    /\ last' = Call("read", sid,
                    [NewConnection EXCEPT !.ret = Len(Head(websockets[sid].read_queue))])
    /\ UNCHANGED <<next_stream_id, attempt>>

Read == \E sid \in AllStreamIds : ReadOf(sid)

Next == Open \/ Write \/ Close \/ HttpEvent \/ Read

Spec == Init /\ [][Next]_vars

\* ------------------------------------------------------- the blocking read
\* XpraQuicConnection.read: the owner of the stream enters read_queue.get()
ReadCall(sid) ==
    /\ sid \in DOMAIN websockets
    /\ ~websockets[sid].reading
    /\ Called
    /\ websockets' = [websockets EXCEPT ![sid].reading = TRUE]
    /\ last' = Call("read_call", sid, NewConnection)
    /\ UNCHANGED <<next_stream_id, attempt>>

\* read_queue.get() returns the head of the queue once there is one: the end
\* of a call that was made, not one more call
ReadReturn(sid) ==
    /\ sid \in DOMAIN websockets
    /\ websockets[sid].reading
    /\ websockets[sid].read_queue # <<>>
    /\ websockets' = [websockets EXCEPT ![sid].reading = FALSE,
                                        ![sid].read_queue = Tail(@),
                                        ![sid].returned = Append(@, Head(websockets[sid].read_queue))]
    /\ last' = Call("read", sid,
                    [NewConnection EXCEPT !.ret = Len(Head(websockets[sid].read_queue))])
    /\ UNCHANGED <<next_stream_id, calls, attempt>>

BlockingRead == \E sid \in AllStreamIds : ReadCall(sid)
Wake == \E sid \in AllStreamIds : ReadReturn(sid)

\* the same session with the owner of each stream blocking in read()
BlockingNext == Open \/ Write \/ Close \/ HttpEvent \/ BlockingRead \/ Wake

\* a reader inside read_queue.get() is a running thread: it returns when it can
FairSpec ==
    /\ Init /\ [][BlockingNext]_vars
    /\ \A sid \in AllStreamIds : WF_vars(ReadReturn(sid))

\* ------------------------------------------ write() racing flush_writes
\* ClientWebSocketConnection.write, up to its test of write_buffer: with None
\* there, the buffer goes out at once; with a queue, the owner goes on to put
WriteCall(sid, buf) ==
    /\ sid \in DOMAIN websockets
    /\ ~websockets[sid].writing
    /\ Called
    /\ LET c == [websockets[sid] EXCEPT !.submitted = Append(@, buf)]
       IN  IF c.write_buffer_none
           THEN LET c1 == XpraQuicConnection_write(c, buf)
                IN  /\ websockets' = Put(websockets, sid, Settled(c1))
                    /\ last' = Call("write", sid, c1)
           ELSE /\ websockets' = Put(websockets, sid, [c EXCEPT !.writing = TRUE])
                /\ last' = Call("write_call", sid, c)
    /\ UNCHANGED <<next_stream_id, attempt>>

\* self.write_buffer.put(buf); return len(buf): write_buffer is read again,
\* and may have become None since the test
WritePut(sid) ==
    /\ sid \in DOMAIN websockets
    /\ websockets[sid].writing
    /\ LET c == websockets[sid]
           buf == c.submitted[Len(c.submitted)]
           c1 == IF c.write_buffer_none
                 THEN [c EXCEPT !.err = "AttributeError"]  \* None.put
                 ELSE [c EXCEPT !.write_buffer = Append(@, buf), !.ret = Len(buf)]
       IN  /\ websockets' = Put(websockets, sid, [Settled(c1) EXCEPT !.writing = FALSE])
           /\ last' = Call("write", sid, c1)
    /\ UNCHANGED <<next_stream_id, calls, attempt>>

\* the driver takes response headers with one sec-websocket-protocol header
\* naming xpra for a pending stream: accepted = True, and it enters
\* flush_writes
AcceptCall(sid) ==
    /\ sid \in DOMAIN websockets
    /\ ~websockets[sid].accepted /\ ~websockets[sid].closed
    /\ websockets[sid].flushing = "idle"
    /\ Called
    /\ websockets' = [websockets EXCEPT ![sid].accepted = TRUE, ![sid].flushing = "loop"]
    /\ last' = Call("event", sid, NewConnection)
    /\ UNCHANGED <<next_stream_id, attempt>>

\* one turn of the while loop of flush_writes: qsize() > 0, get and
\* send_data, or qsize() = 0 and the loop is left
FlushLoop(sid) ==
    /\ sid \in DOMAIN websockets
    /\ websockets[sid].flushing = "loop"
    /\ LET c == websockets[sid]
       IN  websockets' = Put(websockets, sid,
              IF c.write_buffer = <<>>
              THEN [c EXCEPT !.flushing = "drained"]
              ELSE [connection_send_data(c, memoryview_to_bytes(Head(c.write_buffer)), FALSE)
                      EXCEPT !.write_buffer = Tail(@)])
    /\ UNCHANGED <<next_stream_id, calls, last, attempt>>

\* self.transmit(); self.write_buffer = None: the queue goes, with whatever
\* was put in it since the loop was left
FlushEnd(sid) ==
    /\ sid \in DOMAIN websockets
    /\ websockets[sid].flushing = "drained"
    /\ websockets' = Put(websockets, sid,
          [transmit(websockets[sid]) EXCEPT !.write_buffer = <<>>,
                                            !.write_buffer_none = TRUE,
                                            !.flushing = "idle"])
    /\ UNCHANGED <<next_stream_id, calls, last, attempt>>

RaceWrite == \E sid \in AllStreamIds, buf \in Bufs : WriteCall(sid, buf)
RacePut == \E sid \in AllStreamIds : WritePut(sid)
RaceAccept == \E sid \in AllStreamIds : AcceptCall(sid)
RaceFlush == \E sid \in AllStreamIds : FlushLoop(sid)
RaceFlushEnd == \E sid \in AllStreamIds : FlushEnd(sid)

\* the session thread writing while the driver thread accepts: each thread
\* takes its steps in its own order, the two in any order
RaceNext == Open \/ RaceWrite \/ RacePut \/ RaceAccept \/ RaceFlush \/ RaceFlushEnd

RaceSpec == Init /\ [][RaceNext]_vars

\* ------------------------------------------- admission of one connection
\* the exit code the client ends with
Exit(exit_code) == attempt' = [attempt EXCEPT !.phase = "done", !.exit_code = exit_code]

\* the test starts a server: its --auth backend and its certificate
start_server(server, cert) ==
    /\ attempt.phase = "idle"
    /\ attempt' = [attempt EXCEPT !.phase = "listening", !.auth = server.auth,
                                  !.stored = server.stored, !.cert = cert]
    /\ UNCHANGED <<websockets, next_stream_id, calls, last>>

StartServer == \E server \in ServerAuths, cert \in Certs : start_server(server, cert)

\* the test first runs a version client, without a password: whatever the
\* backend, it gets the version and exits with 0
VersionQuery ==
    /\ attempt.phase = "listening"
    /\ attempt' = [attempt EXCEPT !.phase = "ready", !.version = "OK"]
    /\ UNCHANGED <<websockets, next_stream_id, calls, last>>

\* the test runs the client that asks for admission: the URI of one of the
\* server's sockets, the verify-mode option if any, and a password file if
\* there is a password
run_xpra(path, option, password) ==
    /\ attempt.phase = "ready"
    /\ attempt' = [attempt EXCEPT !.phase = "socket",
                                  !.scheme = path[1], !.listener = path[2],
                                  !.ssl_server_verify_mode = option,
                                  !.password = password]
    /\ UNCHANGED <<websockets, next_stream_id, calls, last>>

RunClient ==
    \E path \in TransportPaths, option \in VerifyModeOptions, password \in Passwords :
        run_xpra(path, option, password)

\* the detector peeks at the first bytes of the socket: a TLS record, an
\* HTTP upgrade request, or the raw protocol
Detect ==
    /\ attempt.phase = "socket"
    /\ attempt' =
          IF IsTls(attempt.scheme) THEN [attempt EXCEPT !.phase = "tls"]
          ELSE IF IsWebSocket(attempt.scheme) THEN [attempt EXCEPT !.phase = "upgrade"]
          ELSE [attempt EXCEPT !.phase = "connection", !.tag = "tcp"]
    /\ UNCHANGED <<websockets, next_stream_id, calls, last>>

\* the TLS handshake: the client verifies the server's certificate under its
\* verify-mode; detection goes on inside TLS
TlsHandshake ==
    /\ attempt.phase = "tls"
    /\ IF ~certificate_verifies(attempt.cert,
                                ssl_server_verify_mode(attempt.ssl_server_verify_mode))
       THEN Exit("SSL_CERTIFICATE_VERIFY_FAILURE")
       ELSE attempt' =
              IF IsWebSocket(attempt.scheme)
              THEN [attempt EXCEPT !.phase = "upgrade", !.tls = TRUE]
              ELSE [attempt EXCEPT !.phase = "connection", !.tls = TRUE, !.tag = "ssl"]
    /\ UNCHANGED <<websockets, next_stream_id, calls, last>>

\* the websocket handshake, on the plain or the decrypted stream
WebSocketUpgrade ==
    /\ attempt.phase = "upgrade"
    /\ attempt' = [attempt EXCEPT !.phase = "connection",
                                  !.tag = IF attempt.tls THEN "wss" ELSE "ws"]
    /\ UNCHANGED <<websockets, next_stream_id, calls, last>>

\* the server's backend meets the connection: fail tears it down, every
\* other backend sends a challenge with a salt
Challenge ==
    /\ attempt.phase = "connection"
    /\ IF attempt.auth = "fail"
       THEN Exit("CONNECTION_FAILED")
       ELSE \E salt \in Salts :
               attempt' = [attempt EXCEPT !.phase = "challenged", !.salt = salt,
                                          !.challenges = @ + 1]
    /\ UNCHANGED <<websockets, next_stream_id, calls, last>>

\* the client answers the challenge, or does not
Respond ==
    /\ attempt.phase = "challenged"
    /\ attempt' = [attempt EXCEPT !.phase = "responded",
                      !.response = challenge_response(attempt.password, attempt.salt)]
    /\ UNCHANGED <<websockets, next_stream_id, calls, last>>

\* the backend verifies, and the client exits with the code of the verdict
Verify ==
    /\ attempt.phase = "responded"
    /\ LET result == verify(attempt.auth, attempt.stored, attempt.salt, attempt.response)
       IN  attempt' = [attempt EXCEPT !.phase = "done", !.result = result,
                                      !.exit_code = ResultCode(result)]
    /\ UNCHANGED <<websockets, next_stream_id, calls, last>>

AdmissionNext ==
    \/ StartServer \/ VersionQuery \/ RunClient \/ Detect \/ TlsHandshake \/ WebSocketUpgrade
    \/ Challenge \/ Respond \/ Verify

AdmissionSpec == Init /\ [][AdmissionNext]_vars

\* ------------------------------------------------------ the tests' cases
\* a case of server_auth_test: _test_auth(auth, "", exit_code, password), the
\* server's password file holding stored
AuthCase(auth, stored, password, exit_code) ==
    [auth |-> auth, stored |-> stored, password |-> password, exit_code |-> exit_code]

\* test_fail expecting an authentication rejection
test_fail_rejected == { AuthCase("fail", <<>>, <<>>, "PASSWORD_REQUIRED") }
test_fail == { AuthCase("fail", <<>>, <<>>, "CONNECTION_FAILED") }

\* test_reject expecting the connection to be refused
test_reject_refused == { AuthCase("reject", <<>>, <<>>, "CONNECTION_FAILED") }
test_reject == { AuthCase("reject", <<>>, <<>>, "PASSWORD_REQUIRED") }

\* test_none with the two exit codes swapped
test_none_swapped ==
    { AuthCase("none", <<>>, <<>>, "NO_AUTHENTICATION"),
      AuthCase("none", <<>>, Foo, "OK") }
test_none ==
    { AuthCase("none", <<>>, <<>>, "OK"),
      AuthCase("none", <<>>, Foo, "NO_AUTHENTICATION") }

\* test_allow expecting a wrong password rather than a missing one
test_allow_failed ==
    { AuthCase("allow", <<>>, <<>>, "AUTHENTICATION_FAILED"),
      AuthCase("allow", <<>>, Foo, "OK") }
test_allow ==
    { AuthCase("allow", <<>>, <<>>, "PASSWORD_REQUIRED"),
      AuthCase("allow", <<>>, Foo, "OK") }

\* test_file expecting a missing password where a wrong one is given
test_file_required ==
    { AuthCase("file", <<>>, <<>>, "PASSWORD_REQUIRED"),
      AuthCase("file", Secret, <<>>, "PASSWORD_REQUIRED"),
      AuthCase("file", Secret, Secret, "OK"),
      AuthCase("file", Secret, Secret \o <<"A">>, "PASSWORD_REQUIRED") }
test_file ==
    { AuthCase("file", <<>>, <<>>, "PASSWORD_REQUIRED"),
      AuthCase("file", Secret, <<>>, "PASSWORD_REQUIRED"),
      AuthCase("file", Secret, Secret, "OK"),
      AuthCase("file", Secret, Secret \o <<"A">>, "AUTHENTICATION_FAILED") }

\* a case of server_sockets_test: the client's URI scheme, the socket of the
\* server it names, the verify-mode option and the exit code expected
SocketCase(scheme, listener, option, exit_code) ==
    [scheme |-> scheme, listener |-> listener, option |-> option,
     exit_code |-> exit_code]

\* test_tcp_socket and test_ws_socket: --auth=allow, password "hello"
test_socket ==
    { SocketCase("tcp", "tcp", "absent", "OK"),
      SocketCase("ws", "tcp", "absent", "OK"),
      SocketCase("ws", "ws", "absent", "OK") }

\* test_ssl with --ssl-server-verify-mode=none
test_ssl_noverify ==
    { SocketCase("ssl", "ssl", "none", "OK"),
      SocketCase("ssl", "tcp", "none", "OK"),
      SocketCase("wss", "tcp", "none", "OK"),
      SocketCase("wss", "ws", "none", "OK") }

\* test_ssl expecting the self signed certificate to pass
test_ssl_verify_passing ==
    { SocketCase("ssl", "ssl", "absent", "OK"),
      SocketCase("ssl", "tcp", "absent", "OK"),
      SocketCase("wss", "ws", "absent", "OK"),
      SocketCase("wss", "wss", "absent", "OK") }
\* test_ssl without the option
test_ssl_verify ==
    { SocketCase("ssl", "ssl", "absent", "SSL_CERTIFICATE_VERIFY_FAILURE"),
      SocketCase("ssl", "tcp", "absent", "SSL_CERTIFICATE_VERIFY_FAILURE"),
      SocketCase("wss", "ws", "absent", "SSL_CERTIFICATE_VERIFY_FAILURE"),
      SocketCase("wss", "wss", "absent", "SSL_CERTIFICATE_VERIFY_FAILURE") }

\* ================================================================= claims
Streams == DOMAIN websockets

IsData(frame) == frame.type = "data"
\* the payloads of the data frames sent on a stream, in the order sent
DataSent(c) ==
    LET frames == SelectSeq(c.sent, IsData)
    IN  [i \in 1..Len(frames) |-> frames[i].data]
IsNotClosePacket(data) == data # <<136, 2, 3, 232>>
\* those of them that are not the websocket close frame
PayloadsSent(c) == SelectSeq(DataSent(c), IsNotClosePacket)

\* a sec-websocket-protocol value lists "xpra": one of its comma-separated
\* elements is exactly xpra
ListsXpra(value) ==
    \E i \in 1..Len(value) :
        /\ i + 3 <= Len(value)
        /\ SubSeq(value, i, i + 3) = Xpra
        /\ (i = 1 \/ value[i - 1] = ",")
        /\ (i + 3 = Len(value) \/ value[i + 4] = ",")
IsSubprotocol(header) == header[1] = SubprotocolHeader
\* the sec-websocket-protocol values of a header list
Subprotocols(headers) ==
    LET hs == SelectSeq(headers, IsSubprotocol)
    IN  [i \in 1..Len(hs) |-> hs[i][2]]
\* response headers naming xpra: one sec-websocket-protocol header, listing it
Accepting(headers) ==
    /\ Len(Subprotocols(headers)) = 1
    /\ ListsXpra(Subprotocols(headers)[1])
\* response headers with sec-websocket-protocol values, none listing xpra
Rejecting(headers) ==
    /\ Len(Subprotocols(headers)) >= 1
    /\ \A i \in 1..Len(Subprotocols(headers)) : ~ListsXpra(Subprotocols(headers)[i])

HeadersEvents == { e \in H3Events : e.type = "HeadersReceived" }
Pending(sid) ==
    sid \in Streams /\ ~websockets[sid].accepted /\ ~websockets[sid].closed

\* C1: the buffers written before a stream is accepted are sent on it once,
\* in the order written, and only after acceptance: a stream not accepted has
\* sent no data frame and holds every buffer written, in order, in its write
\* buffer; an accepted stream has sent exactly the buffers written, in order,
\* and buffers none.
C1_BufferedWritesSentInOrder ==
    \A sid \in Streams :
        LET c == websockets[sid]
        IN  /\ ~c.accepted => DataSent(c) = <<>> /\ c.write_buffer = c.submitted
            /\ c.accepted => PayloadsSent(c) = c.submitted /\ c.write_buffer = <<>>

\* two different buffers were written to a pending stream, and response
\* headers naming xpra have just had them sent
C1_Witness ==
    /\ last.op = "event" /\ last.was_known /\ ~last.was_accepted /\ ~last.was_closed
    /\ last.err = "none"
    /\ LET c == websockets[last.sid]
       IN  /\ c.accepted
           /\ Len(c.submitted) = 2 /\ c.submitted[1] # c.submitted[2]
           /\ Len(DataSent(c)) = 2

\* C2: response headers whose sec-websocket-protocol values do not list xpra
\* close a stream that was neither accepted nor closed: it is closed, not
\* accepted, has sent no data frame and still holds its buffered writes.
C2_RejectionCloses ==
    [][last'.op = "event" =>
       \A e \in HeadersEvents :
          (Pending(e.stream_id) /\ Rejecting(e.headers) /\ HttpEventOf(e))
          => LET c == websockets'[e.stream_id]
             IN  /\ c.closed /\ ~c.accepted
                 /\ DataSent(c) = <<>>
                 /\ c.write_buffer = websockets[e.stream_id].write_buffer
                 /\ ~c.write_buffer_none]_vars

\* a pending stream with a buffered write has just been rejected
C2_Witness ==
    /\ last.op = "event" /\ last.was_known /\ ~last.was_accepted /\ ~last.was_closed
    /\ LET c == websockets[last.sid]
       IN  c.closed /\ ~c.accepted /\ c.write_buffer # <<>>

\* C3: response headers without any sec-websocket-protocol header close a
\* pending stream.
C3_MissingSubprotocolCloses ==
    [][last'.op = "event" =>
       \A e \in HeadersEvents :
          (Pending(e.stream_id) /\ Subprotocols(e.headers) = <<>> /\ HttpEventOf(e))
          => websockets'[e.stream_id].closed]_vars

\* C4: a read() blocked on an empty queue returns once the stream is closed.
C4_CloseUnblocksRead ==
    \A sid \in AllStreamIds :
        (sid \in Streams /\ websockets[sid].reading /\ websockets[sid].closed)
        ~> (sid \in Streams /\ ~websockets[sid].reading)

\* C5: a write() on a closed stream fails with a connection-closed error: it
\* returns no byte count, appends nothing to the write buffer and sends nothing.
C5_WriteAfterCloseFails ==
    [][last'.op = "write" =>
       \A sid \in Streams, buf \in Bufs :
          (websockets[sid].closed /\ WriteOf(sid, buf))
          => /\ last'.err = "ConnectionClosed" /\ last'.ret = 0
             /\ websockets'[sid].write_buffer = websockets[sid].write_buffer
             /\ websockets'[sid].sent = websockets[sid].sent]_vars

\* C6: close() on a closed stream, whether it was closed pending or accepted,
\* raises nothing, sends nothing and leaves every stream as it was.
C6_CloseIdempotent ==
    [][last'.op = "close" =>
       \A sid \in Streams :
          (websockets[sid].closed /\ CloseOf(sid))
          => last'.err = "none" /\ websockets' = websockets]_vars

\* an accepted stream was closed, and close() has just been called again
C6_Witness ==
    /\ last.op = "close" /\ last.was_closed /\ last.was_accepted
    /\ websockets[last.sid].closed

\* C7: a stream that is closed stays in the map's object and stays closed
\* over every step.
C7_ClosedMonotonic ==
    [][\A sid \in Streams :
          websockets[sid].closed
          => sid \in DOMAIN websockets' /\ websockets'[sid].closed]_vars

\* a closed stream has just taken response headers naming xpra: it is
\* accepted, and still closed
C7_Witness ==
    /\ last.op = "event" /\ last.was_closed /\ ~last.was_accepted
    /\ websockets[last.sid].accepted /\ websockets[last.sid].closed

\* C8: the map holds no closed stream.
C8_MapHoldsOnlyOpenStreams == \A sid \in Streams : ~websockets[sid].closed

\* C9: a HeadersReceived or DataReceived event for a stream id that is not in
\* the map raises nothing and leaves the map and every stream in it unchanged.
C9_UnknownStreamIgnored ==
    [][last'.op = "event" =>
       \A e \in H3Events :
          (e.type \in {"HeadersReceived", "DataReceived"}
             /\ e.stream_id \notin Streams /\ HttpEventOf(e))
          => last'.err = "none" /\ websockets' = websockets]_vars

\* an event has just named an unknown stream id while a stream with a
\* buffered write was registered
C9_Witness ==
    /\ last.op = "event" /\ ~last.was_known /\ last.sid \notin Streams
    /\ \E sid \in Streams : websockets[sid].write_buffer # <<>>

\* C10: a call or event on one stream changes no other stream of the map, and
\* whatever became of the others, response headers naming xpra accept a pending
\* stream and send its buffered writes.
C10_StreamsIndependent ==
    [][/\ \A b \in Streams :
             b # last'.sid => b \in DOMAIN websockets' /\ websockets'[b] = websockets[b]
       /\ last'.op = "event" =>
            \A e \in HeadersEvents :
               (Pending(e.stream_id) /\ Accepting(e.headers) /\ HttpEventOf(e))
               => LET c == websockets'[e.stream_id]
                  IN  /\ c.accepted /\ ~c.closed
                      /\ DataSent(c) = websockets[e.stream_id].write_buffer]_vars

\* one stream was closed without being accepted, and another has just been
\* accepted and has sent its buffered write
C10_Witness ==
    /\ last.op = "event" /\ last.was_known /\ ~last.was_accepted /\ ~last.was_closed
    /\ LET b == websockets[last.sid]
       IN  b.accepted /\ ~b.closed /\ Len(DataSent(b)) >= 1
    /\ \E a \in Streams :
          a # last.sid /\ websockets[a].closed /\ ~websockets[a].accepted

\* the request headers of a websocket-over-HTTP/3 handshake for xpra
RequestHeaders ==
    { <<":method", <<"C", "O", "N", "N", "E", "C", "T">> >>,
      <<":scheme", <<"h", "t", "t", "p", "s">> >>,
      <<":protocol", <<"w", "e", "b", "s", "o", "c", "k", "e", "t">> >>,
      <<"sec-websocket-version", <<"1", "3">> >>,
      <<"sec-websocket-protocol", <<"x", "p", "r", "a">> >> }
\* a frame is a request-headers frame: it carries each of the request headers
\* and a user-agent, and leaves the stream open
IsRequest(frame) ==
    /\ frame.type = "headers" /\ ~frame.end_stream
    /\ \A h \in RequestHeaders : \E i \in 1..Len(frame.headers) : frame.headers[i] = h
    /\ \E i \in 1..Len(frame.headers) :
          frame.headers[i][1] = "user-agent" /\ frame.headers[i][2] # <<>>

\* C11: open() registers the new stream under an id the map did not hold, not
\* accepted, not closed, with an empty write buffer, and sends on it one
\* request-headers frame; on every stream of the map the first frame sent is
\* that request-headers frame, so that no data frame precedes it.
C11_OpenSendsRequestHeadersFirst ==
    /\ last.op = "open" =>
          /\ ~last.was_known /\ last.sid \in Streams
          /\ LET c == websockets[last.sid]
             IN  /\ ~c.accepted /\ ~c.closed
                 /\ c.write_buffer = <<>> /\ ~c.write_buffer_none
                 /\ Len(c.sent) = 1
    /\ \A sid \in Streams :
          LET c == websockets[sid]
          IN  Len(c.sent) >= 1 /\ IsRequest(c.sent[1])

\* a second stream has just been opened, after a data frame went out on the
\* first
C11_Witness ==
    /\ last.op = "open" /\ Cardinality(Streams) = 2
    /\ \E sid \in Streams : sid # last.sid /\ Len(DataSent(websockets[sid])) >= 1

\* the frame that terminates a stream: the websocket close frame (opcode 8
\* with FIN, status 1000) as data on an accepted stream, a headers response
\* starting with :status on one that is not, with end_stream set
IsTerminating(frame, accepted) ==
    /\ frame.end_stream
    /\ IF accepted
       THEN frame.type = "data" /\ frame.data = <<136, 2, 3, 232>>
       ELSE /\ frame.type = "headers" /\ Len(frame.headers) = 1
            /\ frame.headers[1][1] = ":status"

\* C18: the step that closes a stream sends exactly one terminating frame on
\* it, chosen by whether the stream is accepted: what had been sent stays, the
\* terminating frame is the last frame sent and the only new frame with
\* end_stream set, a close() call sends nothing but it, and the stream is
\* closed afterwards.
C18_FirstCloseSendsOneTerminatingFrame ==
    [][\A sid \in Streams :
          (~websockets[sid].closed /\ sid \in DOMAIN websockets'
             /\ (websockets'[sid].closed \/ (last'.op = "close" /\ last'.sid = sid)))
          => LET c == websockets[sid]
                 d == websockets'[sid]
                 n == Len(d.sent)
             IN  /\ d.closed
                 /\ n > Len(c.sent) /\ SubSeq(d.sent, 1, Len(c.sent)) = c.sent
                 /\ IsTerminating(d.sent[n], d.accepted)
                 /\ \A i \in (Len(c.sent) + 1)..(n - 1) : ~d.sent[i].end_stream
                 /\ last'.op = "close" => n = Len(c.sent) + 1 /\ d.accepted = c.accepted
      ]_vars

\* close() has just closed an accepted stream, while another stream was
\* closed without having been accepted
C18_Witness ==
    /\ last.op = "close" /\ ~last.was_closed /\ last.was_accepted
    /\ websockets[last.sid].closed
    /\ \E sid \in Streams : websockets[sid].closed /\ ~websockets[sid].accepted

\* C19: a write() on a stream that is not accepted appends the buffer to the
\* write buffer and sends nothing; a write() on an accepted stream sends the
\* buffer as one data frame and buffers nothing; an accepted stream has given
\* up its write buffer, and a stream that has given it up never has one again.
C19_WritesBufferedUntilAccepted ==
    [][/\ \A sid \in Streams :
             /\ websockets[sid].accepted => websockets[sid].write_buffer_none
             /\ websockets[sid].write_buffer_none
                  => /\ websockets'[sid].write_buffer_none
                     /\ websockets'[sid].write_buffer = <<>>
       /\ last'.op = "write" =>
            \A sid \in Streams, buf \in Bufs :
               WriteOf(sid, buf)
               => LET c == websockets[sid]
                      d == websockets'[sid]
                  IN  IF c.accepted
                      THEN /\ d.write_buffer = <<>>
                           /\ Len(d.sent) = Len(c.sent) + 1
                           /\ SubSeq(d.sent, 1, Len(c.sent)) = c.sent
                           /\ d.sent[Len(d.sent)].type = "data"
                           /\ d.sent[Len(d.sent)].data = buf
                      ELSE /\ d.sent = c.sent
                           /\ d.write_buffer = Append(c.write_buffer, buf)
      ]_vars

\* two buffers were written to a stream, the second one just now and after
\* the stream was accepted and flushed: both have gone out, none is buffered
C19_Witness ==
    /\ last.op = "write" /\ last.was_accepted /\ ~last.was_closed
    /\ LET c == websockets[last.sid]
       IN  Len(c.submitted) = 2 /\ DataSent(c) = c.submitted /\ c.write_buffer = <<>>

\* C20: on every stream, what read() has returned followed by what the
\* inbound queue holds is exactly the payloads of the DataReceived events
\* delivered to that stream while it was not closed, in the order they came:
\* reads return payloads in arrival order, each once, none from another stream.
C20_InboundQueueFifo ==
    \A sid \in Streams :
        LET c == websockets[sid]
        IN  c.returned \o c.read_queue = c.delivered

\* two different payloads came for a stream and read() has just returned the
\* second of them
C20_Witness ==
    /\ last.op = "read"
    /\ LET c == websockets[last.sid]
       IN  /\ Len(c.returned) = 2 /\ c.returned[1] # c.returned[2]
           /\ c.read_queue = <<>>

\* a connection attempt has ended, after a Connection came to exist for the
\* backend to meet
Ended == attempt.phase = "done" /\ attempt.tag # "none"
\* the attempt ended as a case of server_auth_test expects
AuthTestPasses(t) ==
    (/\ Ended /\ ~attempt.tls /\ attempt.auth = t.auth /\ attempt.stored = t.stored
     /\ attempt.password = t.password)
    => attempt.exit_code = t.exit_code
\* the attempt on a socket of a server ended as a case of server_sockets_test
\* expects
SocketTestPasses(t, auth, password) ==
    (/\ attempt.phase = "done" /\ attempt.cert = "self-signed"
     /\ attempt.auth = auth /\ attempt.password = password
     /\ attempt.scheme = t.scheme /\ attempt.listener = t.listener
     /\ attempt.ssl_server_verify_mode = t.option)
    => attempt.exit_code = t.exit_code

\* C12: with the fail backend no challenge is ever sent, and an attempt that
\* reached the backend, with or without a password, ends with
\* CONNECTION_FAILED; so does test_fail's.  (An attempt is a client asking
\* for admission: the version query the tests make first is answered whatever
\* the backend.)
C12_FailRefusesBeforeChallenge ==
    /\ attempt.auth = "fail" =>
          /\ attempt.challenges = 0
          /\ Ended => attempt.exit_code = "CONNECTION_FAILED"
    /\ \A t \in test_fail : AuthTestPasses(t)

\* an attempt with a password has ended on the fail backend
C12_Witness ==
    /\ Ended /\ attempt.auth = "fail" /\ attempt.password = Foo
    /\ attempt.exit_code = "CONNECTION_FAILED" /\ attempt.challenges = 0

\* C13: with the none backend an attempt without a password ends with OK
\* and an attempt with any password ends with NO_AUTHENTICATION; so do
\* test_none's.
C13_NoneRefusesCredentials ==
    /\ (Ended /\ attempt.auth = "none") =>
          attempt.exit_code = IF attempt.password = <<>> THEN "OK"
                              ELSE "NO_AUTHENTICATION"
    /\ \A t \in test_none : AuthTestPasses(t)

\* an attempt with a password other than test_none's has ended on the none
\* backend
C13_Witness ==
    /\ Ended /\ attempt.auth = "none" /\ attempt.password = Hello
    /\ attempt.exit_code = "NO_AUTHENTICATION" /\ attempt.challenges = 1

\* C14: with the allow backend an attempt without a password ends with
\* PASSWORD_REQUIRED and an attempt with any password ends with OK; so do
\* test_allow's, and test_tcp_socket's and test_ws_socket's with "hello".
C14_AllowRequiresAnyCredential ==
    /\ (Ended /\ attempt.auth = "allow") =>
          attempt.exit_code = IF attempt.password = <<>> THEN "PASSWORD_REQUIRED"
                              ELSE "OK"
    /\ \A t \in test_allow : AuthTestPasses(t)
    /\ \A t \in test_socket : SocketTestPasses(t, "allow", Hello)

\* an attempt with "hello" over a websocket has ended on the allow backend
C14_Witness ==
    /\ Ended /\ attempt.auth = "allow" /\ attempt.password = Hello
    /\ attempt.tag = "ws" /\ attempt.exit_code = "OK"

\* C15: with the file backend an attempt ends with PASSWORD_REQUIRED when
\* the server has no password file or the client gives no password, with OK
\* when the client gives the stored secret, with AUTHENTICATION_FAILED when it
\* gives another, and with nothing else; so do test_file's.
C15_FileComparesSecret ==
    /\ (Ended /\ attempt.auth = "file") =>
          attempt.exit_code =
             IF attempt.stored = <<>> \/ attempt.password = <<>> THEN "PASSWORD_REQUIRED"
             ELSE IF attempt.password = attempt.stored THEN "OK"
             ELSE "AUTHENTICATION_FAILED"
    /\ \A t \in test_file : AuthTestPasses(t)

\* an attempt with the stored secret and "A" has ended on the file backend
C15_Witness ==
    /\ Ended /\ attempt.auth = "file" /\ attempt.stored = Secret
    /\ attempt.password = Secret \o <<"A">>
    /\ attempt.exit_code = "AUTHENTICATION_FAILED"

\* C16: with the reject backend an attempt that reached the backend has been
\* sent one challenge once it is past the backend's first step, and ends with
\* PASSWORD_REQUIRED, never with OK, with or without a password; so does
\* test_reject's.
C16_RejectNeverAccepts ==
    /\ (attempt.auth = "reject" /\ attempt.phase \in {"challenged", "responded", "done"}
          /\ attempt.tag # "none")
       => attempt.challenges = 1
    /\ (Ended /\ attempt.auth = "reject") => attempt.exit_code = "PASSWORD_REQUIRED"
    /\ \A t \in test_reject : AuthTestPasses(t)

\* an attempt with a password has ended on the reject backend
C16_Witness ==
    /\ Ended /\ attempt.auth = "reject" /\ attempt.password = Foo
    /\ attempt.exit_code = "PASSWORD_REQUIRED" /\ attempt.challenges = 1

\* C17: against a self-signed certificate, on every path that ends inside TLS
\* (ssl or wss, on whichever socket), an attempt under verify-mode required,
\* given or by default, ends with SSL_CERTIFICATE_VERIFY_FAILURE; under
\* verify-mode none it never does, and on a server without authentication it
\* ends with OK; so do test_ssl's.
C17_SelfSignedNeedsVerifyModeNone ==
    /\ (attempt.phase = "done" /\ attempt.cert = "self-signed"
          /\ attempt.scheme \in {"ssl", "wss"})
       => /\ attempt.ssl_server_verify_mode \in {"absent", "required"}
               => attempt.exit_code = "SSL_CERTIFICATE_VERIFY_FAILURE"
          /\ attempt.ssl_server_verify_mode = "none"
               => /\ attempt.exit_code # "SSL_CERTIFICATE_VERIFY_FAILURE"
                  /\ attempt.tag = attempt.scheme
                  /\ (attempt.auth = "none" /\ attempt.password = <<>>)
                       => attempt.exit_code = "OK"
    /\ \A t \in test_ssl_noverify : SocketTestPasses(t, "none", <<>>)
    /\ \A t \in test_ssl_verify : SocketTestPasses(t, "none", <<>>)

\* an attempt over wss on the ws socket has ended with OK under verify-mode
\* none, the certificate self-signed
C17_Witness ==
    /\ attempt.phase = "done" /\ attempt.cert = "self-signed"
    /\ attempt.scheme = "wss" /\ attempt.listener = "ws" /\ attempt.tag = "wss"
    /\ attempt.ssl_server_verify_mode = "none" /\ attempt.exit_code = "OK"

\* C21: closed is terminal: an event delivered when a stream is closed, a
\* HeadersReceived naming xpra among them, neither makes the stream accepted
\* nor sends anything on it.
C21_ClosedIsTerminal ==
    [][last'.op = "event" =>
       \A sid \in Streams :
          websockets[sid].closed
          => /\ websockets'[sid].accepted = websockets[sid].accepted
             /\ websockets'[sid].sent = websockets[sid].sent]_vars

\* response headers that name xpra in every sec-websocket-protocol header
\* they carry, and carry at least one
NamingXpra(headers) ==
    /\ Len(Subprotocols(headers)) >= 1
    /\ \A i \in 1..Len(Subprotocols(headers)) : ListsXpra(Subprotocols(headers)[i])

\* C22: accepting again is harmless: a sec-websocket-protocol header naming
\* xpra that reaches a stream already accepted, in a second HeadersReceived
\* event or as the second such header of one event, raises nothing, sends no
\* data frame again and leaves the stream accepted with buffering retired.
C22_AcceptingAgainIsHarmless ==
    [][last'.op = "event" =>
       \A e \in HeadersEvents :
          (/\ e.stream_id \in Streams /\ ~websockets[e.stream_id].closed
           /\ NamingXpra(e.headers)
           /\ websockets[e.stream_id].accepted \/ Len(Subprotocols(e.headers)) >= 2
           /\ HttpEventOf(e))
          => LET c == websockets[e.stream_id]
                 d == websockets'[e.stream_id]
             IN  /\ last'.err = "none"
                 /\ d.accepted /\ d.write_buffer_none
                 /\ DataSent(d) = DataSent(c) \o c.write_buffer]_vars

\* C24: end_stream ends a stream's outbound direction: on every stream a
\* frame sent with end_stream set is the last frame sent, so that no headers
\* or data frame follows it and at most one frame carries end_stream.
C24_EndStreamIsLast ==
    \A sid \in Streams :
        LET sent == websockets[sid].sent
        IN  \A i \in 1..Len(sent) : sent[i].end_stream => i = Len(sent)

\* C23: a write() made while the driver accepts the stream and flushes its
\* buffered writes raises nothing, and its buffer is sent once, after the
\* writes submitted before it: what has been sent is at all times the first of
\* the buffers submitted, in order, and all of them once the stream is
\* accepted and neither thread is inside write() or flush_writes.
C23_WriteRacingFlushIsSent ==
    /\ last.op = "write" => last.err = "none"
    /\ \A sid \in Streams :
          LET c == websockets[sid]
          IN  /\ Len(DataSent(c)) <= Len(c.submitted)
              /\ DataSent(c) = SubSeq(c.submitted, 1, Len(DataSent(c)))
              /\ (c.accepted /\ c.flushing = "idle" /\ ~c.writing)
                   => DataSent(c) = c.submitted

====
